---- MODULE Spec2Model ----
(***************************************************************************)
(* RabbitMQConnector (src/src/rabbitmq.py) on a Tornado IOLoop, wired as   *)
(* in src/src/app.py to a PingboardConfiguration (src/src/pingboard.py).   *)
(*                                                                         *)
(* Every connector method is an operator from a world record (all the      *)
(* state) to the world after the call; a Python exception is recorded in   *)
(* obs.exc and the statements after the raising one do not run.  The       *)
(* actions are the entry points (setup, stop), the IOLoop running a queued *)
(* callback or a due timer, and the pika callbacks the broker triggers.    *)
(* The publisher and registration entry points, a repeated setup() and    *)
(* the AmqpConfiguration constructor have specifications of their own, and *)
(* so have the key parser (kp), PingboardConfiguration in detail (pc),     *)
(* PingboardSerial (ser), TerminationGuard (tg) and HealthHandler (hh).    *)
(***************************************************************************)
EXTENDS Integers, Sequences, FiniteSets, TLC

VARIABLES cfg, con, pika, loop, pb, obs, amqp, kp, pc, tg, hh, ser

vars == <<cfg, con, pika, loop, pb, obs, amqp, kp, pc, tg, hh, ser>>

\* ---------------------------------------------------------------- bounds
\* number of _connect() calls (TornadoConnection constructions) explored
MaxConnect == 2
\* number of stop() calls explored
MaxStop == 2
\* number of key events a PingboardKeyParser is fed
MaxEvents == 3
\* number of calls made on a PingboardConfiguration
MaxCalls == 2
\* number of termination handlers and of termination triggers
MaxHandlers == 3
MaxTriggers == 2
\* number of accepted registrations of health providers
MaxProviders == 2

\* ------------------------------------------------------ program constants
\* delay of self._ioloop.call_later(5, self._reconnect)
RetryDelay == 5
\* channel.basic_qos(prefetch_count=1)
PrefetchCount == 1

DEFAULT_RK_STATUS == "status"
DEFAULT_RK_CONFIGURATION == "pingboard-configuration"
DEFAULT_RK_KEY == <<"1.key", "2.key", "3.key", "4.key">>

DEFAULT_EXCHANGE == "pingboard"
DEFAULT_QU_CONFIGURATION == "pingboard-configuration"

\* --------------------------------------------------------- AmqpConfiguration
\* Python's None among string values
None == "<None>"

\* `not x` for x a string or None
Falsy(x) == x = None \/ x = ""

\* The rk_key argument: None (omitted), or a list of entries.
NoKeys == [list |-> FALSE, items |-> <<>>]
KeyList(items) == [list |-> TRUE, items |-> items]

Contains(items, x) == \E i \in 1..Len(items) : items[i] = x

Failed(error, message) == [error |-> error, message |-> message, built |-> <<>>]
Pending == Failed("pending", "")

\* AmqpConfiguration.__init__: the checks in the order of the code; the
\* membership tests on rk_key are a TypeError when rk_key is None.
AmqpConfiguration_init(a) ==
    IF Falsy(a.amqp_host) THEN Failed("ValueError", "Host configuration must be provided!")
    ELSE IF Falsy(a.amqp_user) THEN Failed("ValueError", "User configuration must be provided!")
    ELSE IF Falsy(a.rk_status)
         THEN Failed("ValueError", "Routing key for status must be provided!")
    ELSE IF ~a.rk_key.list
         THEN Failed("TypeError", "argument of type 'NoneType' is not iterable")
    ELSE IF Contains(a.rk_key.items, None) \/ Contains(a.rk_key.items, "")
         THEN Failed("ValueError", "Routing keys for key presses must not be empty!")
    ELSE IF Falsy(a.qu_config)
         THEN Failed("ValueError", "Queue name for configuration must be provided!")
    ELSE [error |-> "none", message |-> "",
          built |-> <<[host |-> a.amqp_host, user |-> a.amqp_user, passwd |-> a.amqp_passwd,
                       exchange |-> a.exchange, rk_status |-> a.rk_status,
                       rk_key |-> IF a.rk_key.items # <<>> THEN a.rk_key.items
                                  ELSE DEFAULT_RK_KEY,
                       rk_config |-> a.rk_config, qu_config |-> a.qu_config,
                       declare |-> a.declare]>>]

\* os.getenv(name, default) on an environment record; Unset marks a variable
\* that is not in the environment
Unset == None
getenv(env, name, default) == IF env[name] = Unset THEN default ELSE env[name]

\* bool(x) for x the default False (here: Unset) or a string
py_bool(x) == x # Unset /\ x # ""

\* from_environment with the first default for every per-key routing key
environment_args_first_default(env) ==
    [amqp_host |-> getenv(env, "AMQP_HOST", None),
     amqp_user |-> getenv(env, "AMQP_USER", None),
     amqp_passwd |-> getenv(env, "AMQP_PASS", None),
     exchange |-> getenv(env, "AMQP_EXCHANGE", DEFAULT_EXCHANGE),
     rk_status |-> getenv(env, "AMQP_RK_STATUS", DEFAULT_RK_STATUS),
     rk_key |-> KeyList([i \in 1..Len(DEFAULT_RK_KEY) |->
                           getenv(env, "AMQP_RK_KEY_1", DEFAULT_RK_KEY[1])]),
     rk_config |-> getenv(env, "AMQP_RK_CONFIG", DEFAULT_RK_CONFIGURATION),
     qu_config |-> getenv(env, "AMQP_QU_CONFIG", DEFAULT_QU_CONFIGURATION),
     declare |-> py_bool(getenv(env, "AMQP_DECLARE", Unset))]

\* AmqpConfiguration.from_environment: the arguments it passes to __init__;
\* every per-key routing key is read from AMQP_RK_KEY_1.
environment_args(env) ==
    [amqp_host |-> getenv(env, "AMQP_HOST", None),
     amqp_user |-> getenv(env, "AMQP_USER", None),
     amqp_passwd |-> getenv(env, "AMQP_PASS", None),
     exchange |-> getenv(env, "AMQP_EXCHANGE", DEFAULT_EXCHANGE),
     rk_status |-> getenv(env, "AMQP_RK_STATUS", DEFAULT_RK_STATUS),
     rk_key |-> KeyList([i \in 1..Len(DEFAULT_RK_KEY) |->
                           getenv(env, "AMQP_RK_KEY_1", DEFAULT_RK_KEY[i])]),
     rk_config |-> getenv(env, "AMQP_RK_CONFIG", DEFAULT_RK_CONFIGURATION),
     qu_config |-> getenv(env, "AMQP_QU_CONFIG", DEFAULT_QU_CONFIGURATION),
     declare |-> py_bool(getenv(env, "AMQP_DECLARE", Unset))]

from_environment(env) == AmqpConfiguration_init(environment_args(env))

\* -------------------------------------------------------- PingboardKeyParser
MODIFIER_CODE == 125
KEYS == <<88, 87, 68, 67>>

\* list.index(x), counted from 0; a ValueError when x is not in the list
InList(list, x) == \E i \in 1..Len(list) : list[i] = x
list_index(list, x) == (CHOOSE i \in 1..Len(list) : list[i] = x /\ \A j \in 1..(i - 1) : list[j] # x) - 1

\* A parser after __init__: modifier not held.  events and calls are the
\* events processed and the callback invocations made so far; logs and exc
\* belong to the last process() call.
InitParser ==
    [modifier |-> FALSE, events |-> <<>>, calls |-> <<>>, logs |-> <<>>, exc |-> "none"]

\* self._callback()(key)
parser_callback(p, key) == [p EXCEPT !.calls = Append(@, [at |-> Len(p.events), key |-> key])]

\* process() that does not look at the modifier
process_any_press(p, code, enabled) ==
    IF code = MODIFIER_CODE THEN [p EXCEPT !.modifier = enabled]
    ELSE IF ~InList(KEYS, code) THEN [p EXCEPT !.exc = "ValueError"]
    ELSE IF enabled THEN parser_callback(p, list_index(KEYS, code) + 1) ELSE p

\* PingboardKeyParser.process(code, enabled)
process(p, code, enabled) ==
    IF code = MODIFIER_CODE THEN [p EXCEPT !.modifier = enabled]
    ELSE LET p1 == IF ~InList(KEYS, code)
                   THEN [p EXCEPT !.logs = Append(@, [level |-> "warning",
                                                       msg |-> "Unknown Pingboard key code: %s",
                                                       arg |-> code])]
                   ELSE p
         IN IF ~InList(KEYS, code) THEN [p1 EXCEPT !.exc = "ValueError"]
            ELSE IF p1.modifier /\ enabled
                 THEN parser_callback(p1, list_index(KEYS, code) + 1)
                 ELSE p1

\* ----------------------------------------------------- PingboardConfiguration
BLINK_MODE == {"SINGLE", "SHORT", "LONG", "OFF"}

\* PingboardState(), of four PingboardKeyState()
PingboardState ==
    [brightness |-> 255,
     keys |-> [i \in 1..4 |-> [color |-> <<0, 0, 0>>, blink_mode |-> "OFF",
                               blink_color |-> <<0, 0, 0>>]]]

\* PingboardState.as_configuration()
as_configuration(st) ==
    [brightness |-> st.brightness,
     keys |-> [i \in 1..Len(st.keys) |-> [idx |-> i, color |-> st.keys[i].color]],
     blink |-> [i \in 1..Len(st.keys) |->
                  [idx |-> i, mode |-> st.keys[i].blink_mode, color |-> st.keys[i].blink_color]]]

\* "{:03d}".format(n) for n in 0..999
Format03d(n) ==
    IF n < 10 THEN "00" \o ToString(n) ELSE IF n < 100 THEN "0" \o ToString(n) ELSE ToString(n)
FormatColor(c) == Format03d(c[1]) \o " " \o Format03d(c[2]) \o " " \o Format03d(c[3])

\* the command strings of PingboardSerial
DimCommand(brightness) == "DIM " \o Format03d(brightness) \o "\n"
ColCommand(idx, color) == "COL " \o ToString(idx) \o " " \o FormatColor(color) \o "\n"
BlnkCommand(idx, mode, color) ==
    "BLNK " \o ToString(idx) \o " " \o mode \o " " \o FormatColor(color) \o "\n"

\* A PingboardConfiguration after __init__ on a serial writer whose writes
\* succeed or not (port_ok).  state is <<>> for None.  op, cfg, commands (the
\* calls made on the serial writer), logs, exc and ret belong to the last call,
\* was tells whether the state existed when that call began and prev is the
\* state it began with.
InitPingboardConfiguration(port_ok) ==
    [state |-> <<>>, port_ok |-> port_ok, calls |-> 0, was |-> FALSE, prev |-> <<>>,
     op |-> "init", cfg |-> [kind |-> "", part |-> FALSE, entries |-> <<>>],
     commands |-> <<>>, logs |-> <<>>, exc |-> "none", ret |-> <<>>]

\* self._serial.<command>(...): the call is made, _write reports port_ok
serial_write(p, command) == [p EXCEPT !.commands = Append(@, command)]

\* _brightness, _key_color, _key_blink.  raised is str(e) of the exception
\* the call ends with, "none" when it returns.

\* self._state.keys[idx - 1]: a python list of 4 takes the indices -4..3; the
\* position of the key among the four, 0 where python raises IndexError
KeyPosition(idx) == IF idx \in 1..4 THEN idx ELSE IF idx \in -3..0 THEN idx + 4 ELSE 0

brightness_(p, brightness) ==
    [p |-> serial_write([p EXCEPT !.state[1].brightness = brightness], DimCommand(brightness)),
     raised |-> "none"]

key_color_(p, idx, color) ==
    IF KeyPosition(idx) = 0 THEN [p |-> p, raised |-> "list index out of range"]
    ELSE [p |-> serial_write([p EXCEPT !.state[1].keys[KeyPosition(idx)].color = color],
                             ColCommand(idx, color)),
          raised |-> "none"]

key_blink_as_requested(p, idx, mode, color) ==
    IF mode \notin BLINK_MODE \/ KeyPosition(idx) = 0 THEN [p |-> p, raised |-> "Exception"]
    ELSE [p |-> [serial_write(p, BlnkCommand(idx, mode, color))
                   EXCEPT !.state[1].keys[KeyPosition(idx)].blink_mode = mode,
                          !.state[1].keys[KeyPosition(idx)].blink_color = color],
          raised |-> "none"]

key_blink_(p, idx, mode, color) ==
    IF mode \notin BLINK_MODE
    THEN [p |-> p,
          raised |-> "('Blink mode must be one of %s, was:', ('SINGLE', 'SHORT', 'LONG', 'OFF'), '"
                          \o mode \o "')"]
    ELSE LET p1 == serial_write(p, BlnkCommand(idx, mode, color))
         IN IF KeyPosition(idx) = 0 THEN [p |-> p1, raised |-> "list index out of range"]
            ELSE [p |-> [p1 EXCEPT !.state[1].keys[KeyPosition(idx)].blink_mode =
                                      IF mode = "SINGLE" /\ p.port_ok THEN "OFF" ELSE mode,
                                   !.state[1].keys[KeyPosition(idx)].blink_color = color],
                  raised |-> "none"]

\* An entry of the configuration part.  Its value is <<>> for None, <<n>> for
\* a number and a sequence of items for a list of keys or blinks.
Item(idx, mode, color) == [idx |-> idx, mode |-> mode, color |-> color]
Entry(key, value) == [key |-> key, value |-> value]

\* _cfg_brightness, _cfg_keys, _cfg_blink: the loops end at the first exception
cfg_brightness(p, value) ==
    IF value = <<>> THEN [p |-> p, raised |-> "none"] ELSE brightness_(p, value[1])

RECURSIVE cfg_keys(_, _, _)
cfg_keys(p, items, i) ==
    IF i > Len(items) THEN [p |-> p, raised |-> "none"]
    ELSE LET r == key_color_(p, items[i].idx, items[i].color)
         IN IF r.raised # "none" THEN r ELSE cfg_keys(r.p, items, i + 1)

RECURSIVE cfg_blink(_, _, _)
cfg_blink(p, items, i) ==
    IF i > Len(items) THEN [p |-> p, raised |-> "none"]
    ELSE LET r == key_blink_(p, items[i].idx, items[i].mode, items[i].color)
         IN IF r.raised # "none" THEN r ELSE cfg_blink(r.p, items, i + 1)

\* self._cfg_handlers[key](value)
cfg_handlers(p, key, value) ==
    CASE key = "brightness" -> cfg_brightness(p, value)
      [] key = "keys" -> cfg_keys(p, value, 1)
      [] key = "blink" -> cfg_blink(p, value, 1)
      [] OTHER -> [p |-> p, raised |-> "'" \o key \o "'"]

\* one round of the loop of on_configuration, with its try/except
configuration_entry(p, entry) ==
    LET r == cfg_handlers(p, entry.key, entry.value)
    IN IF r.raised = "none" THEN r.p
       ELSE [r.p EXCEPT !.logs = Append(@, [level |-> "error",
                                            msg |-> "Invalid configuration snippet: %s",
                                            arg |-> r.raised])]

RECURSIVE configuration_items_first_failure(_, _, _)
configuration_items_first_failure(p, entries, i) ==
    IF i > Len(entries) \/ Len(p.logs) > 0 THEN p
    ELSE configuration_items_first_failure(configuration_entry(p, entries[i]), entries, i + 1)

\* for key, value in configuration.items()
RECURSIVE configuration_items(_, _, _)
configuration_items(p, entries, i) ==
    IF i > Len(entries) THEN p
    ELSE configuration_items(configuration_entry(p, entries[i]), entries, i + 1)

\* A received structure: None, a JSON array, or a JSON object with or without
\* its "configuration" part, whose entries come in the order of the text.
Structure(kind, part, entries) == [kind |-> kind, part |-> part, entries |-> entries]

pc_begin(p, op) ==
    [p EXCEPT !.op = op, !.calls = @ + 1, !.commands = <<>>, !.logs = <<>>, !.exc = "none",
              !.ret = <<>>, !.was = p.state # <<>>, !.prev = p.state]

\* PingboardConfiguration.on_configuration
PingboardConfiguration_on_configuration(p, c) ==
    LET p0 == [pc_begin(p, "on_configuration") EXCEPT !.cfg = c]
        p1 == IF p0.state = <<>> THEN [p0 EXCEPT !.state = <<PingboardState>>] ELSE p0
    IN IF c.kind # "dict" THEN [p1 EXCEPT !.exc = "AttributeError"]
       ELSE configuration_items(p1, IF c.part THEN c.entries ELSE <<>>, 1)

\* PingboardConfiguration.get_configuration
PingboardConfiguration_get_configuration(p) ==
    LET p0 == pc_begin(p, "get_configuration")
    IN IF p0.state = <<>> THEN [p0 EXCEPT !.exc = "AttributeError"]
       ELSE [p0 EXCEPT !.ret = <<as_configuration(p0.state[1])>>]

\* the loop of push_config over the keys, from key idx on
RECURSIVE push_keys(_, _)
push_keys(p, idx) ==
    IF idx > 4 THEN p
    ELSE LET key == p.state[1].keys[idx]
             p1 == key_color_(p, idx, key.color).p
         IN push_keys(key_blink_(p1, idx, key.blink_mode, key.blink_color).p, idx + 1)

push_config_without_state(p) ==
    LET p0 == pc_begin(p, "push_config")
        p1 == IF p0.state = <<>> THEN [p0 EXCEPT !.state = <<PingboardState>>] ELSE p0
    IN push_keys(brightness_(p1, p1.state[1].brightness).p, 1)

\* PingboardConfiguration.push_config
push_config(p) ==
    LET p0 == pc_begin(p, "push_config")
    IN IF p0.state = <<>> THEN p0
       ELSE push_keys(brightness_(p0, p0.state[1].brightness).p, 1)

\* ------------------------------------------------------------ TerminationGuard
\* TerminationGuard(ioloop): ioloop tells whether a loop was given.  handlers
\* are [id, raises] records, ran lists the handlers called over the whole run,
\* stopped tells that ioloop.stop() was called.
TerminationGuard(ioloop) ==
    [ioloop |-> ioloop, signal_received |-> FALSE, handlers |-> <<>>, ran |-> <<>>,
     triggers |-> 0, stopped |-> FALSE, op |-> "init", exc |-> "none"]

\* add_termination_handler(handler); <<>> stands for None
add_termination_handler(g, handler) ==
    [g EXCEPT !.op = "add_termination_handler", !.exc = "none",
              !.handlers = IF handler # <<>> THEN Append(@, handler[1]) ELSE @]

\* for hnd in self._handlers: hnd(), from handler i on; a handler that raises
\* ends the loop and the call
RECURSIVE call_handlers(_, _)
call_handlers(g, i) ==
    IF i > Len(g.handlers) THEN g
    ELSE LET g1 == [g EXCEPT !.ran = Append(@, g.handlers[i].id)]
         IN IF g.handlers[i].raises THEN [g1 EXCEPT !.exc = "Exception"]
            ELSE call_handlers(g1, i + 1)

\* _on_signal, also reached through terminate()
on_signal(g) ==
    LET g0 == [g EXCEPT !.op = "_on_signal", !.exc = "none", !.triggers = @ + 1]
        g1 == IF ~g0.signal_received THEN call_handlers(g0, 1) ELSE g0
    IN IF g1.exc # "none" THEN g1 ELSE [g1 EXCEPT !.signal_received = TRUE]

\* _stop_on_signal, run by the periodic callback
stop_on_signal(g) ==
    LET g0 == [g EXCEPT !.op = "_stop_on_signal", !.exc = "none"]
    IN IF g0.signal_received /\ g0.ioloop THEN [g0 EXCEPT !.stopped = TRUE] ELSE g0

\* --------------------------------------------------------------- HealthHandler
RESERVED_KEYS == {"api-version", "timestamp", "uptime"}

\* The class as loaded: health_providers is empty.  providers is the weak
\* dictionary, in insertion order; registered lists the registrations that
\* were accepted, whatever became of the entry; status is the answer of the
\* last get.
HealthHandler ==
    [providers |-> <<>>, registered |-> <<>>, op |-> "init", exc |-> "none", status |-> 0]

\* add_health_provider(key, provider).  provider is <<>> for None, else
\* <<[kind, healthy]>>: an object with a get_health method, which its owner
\* keeps, or a bound method; collected tells that the caller passed the bound
\* method as a temporary, which is freed when the call returns and takes its
\* weak entry along.
add_health_provider(h, key, provider, collected) ==
    LET h0 == [h EXCEPT !.op = "add_health_provider", !.exc = "none"]
        keys == {h0.providers[i].key : i \in 1..Len(h0.providers)}
    IN IF key \in RESERVED_KEYS THEN [h0 EXCEPT !.exc = "ValueError"]
       ELSE IF key \in keys \/ provider = <<>> THEN [h0 EXCEPT !.exc = "KeyError"]
       ELSE LET entry == [key |-> key, kind |-> provider[1].kind,
                          healthy |-> provider[1].healthy]
            IN [h0 EXCEPT !.registered = Append(@, entry),
                          !.providers = IF entry.kind = "method" /\ collected
                                        THEN @ ELSE Append(@, entry)]

\* get(): provider.get_health() exists on an object only; tornado answers an
\* exception of the handler with status 500
HealthHandler_get(h) ==
    LET h0 == [h EXCEPT !.op = "get", !.exc = "none"]
        entries == {h0.providers[i] : i \in 1..Len(h0.providers)}
    IN IF \E e \in entries : e.kind = "method"
       THEN [h0 EXCEPT !.exc = "AttributeError", !.status = 500]
       ELSE [h0 EXCEPT !.status = IF \A e \in entries : e.healthy THEN 200 ELSE 500]

\* ------------------------------------------------------------- PingboardSerial
Retries == 3

\* PingboardSerial after __init__: the port was found or not.  tried lists
\* the outcomes of the attempts of the last _write, scans counts its calls of
\* scan_port, began tells whether it began with a port.
PingboardSerial(port) ==
    [port |-> port, op |-> "init", command |-> "", began |-> port, tried |-> <<>>, scans |-> 0,
     ok |-> FALSE, exc |-> "none", logs |-> <<>>]

\* The loop of _write.  outcomes[n] is what attempt n meets: the response
\* "OK", another response, a response that is not UTF-8, or a SerialException
\* raised by one of the calls on the port; found[n] is what scan_port finds
\* after attempt n.
RECURSIVE write_loop(_, _, _, _)
write_loop(s, retries, outcomes, found) ==
    IF s.port /\ retries # 0 /\ ~s.ok
    THEN LET n == Len(s.tried) + 1
             s1 == [s EXCEPT !.tried = Append(@, outcomes[n])]
         IN CASE outcomes[n] = "OK" ->
                   write_loop([s1 EXCEPT !.ok = TRUE], retries - 1, outcomes, found)
              [] outcomes[n] = "other" -> write_loop(s1, retries - 1, outcomes, found)
              [] outcomes[n] = "undecodable" -> [s1 EXCEPT !.exc = "UnicodeDecodeError"]
              [] OTHER ->
                   write_loop([s1 EXCEPT !.scans = @ + 1, !.port = found[n],
                                         !.logs = Append(@, "Serial exception while writing to Pingboard: %s")],
                              retries - 1, outcomes, found)
    ELSE IF ~s.ok
         THEN [s EXCEPT !.logs = Append(@, "Failure when writing to Pingboard, command was: %s")]
         ELSE s

\* _write with one retry more
write_once_more(s, command, outcomes, found) ==
    write_loop([s EXCEPT !.op = "_write", !.command = command, !.began = s.port,
                         !.tried = <<>>, !.scans = 0, !.ok = FALSE, !.exc = "none",
                         !.logs = <<>>],
               Retries + 1, outcomes, found)

\* PingboardSerial._write
write(s, command, outcomes, found) ==
    write_loop([s EXCEPT !.op = "_write", !.command = command, !.began = s.port,
                         !.tried = <<>>, !.scans = 0, !.ok = FALSE, !.exc = "none",
                         !.logs = <<>>],
               Retries, outcomes, found)

\* ------------------------------------------------------------ inbound bodies
\* Message bodies the broker can deliver, by example.
BodyObject == "{\"configuration\": {\"brightness\": 7}}"
BodyArray == "[1]"
BodyMalformed == "{"
BodyNotUtf8 == "\\xff"
Bodies == {BodyObject, BodyArray, BodyMalformed, BodyNotUtf8}

\* json.loads(body.decode('utf-8')): the kind of value, or the exception raised.
json_loads_decode(body) ==
    CASE body = BodyNotUtf8 -> "UnicodeDecodeError"
      [] body = BodyMalformed -> "JSONDecodeError"
      [] body = BodyArray -> "list"
      [] OTHER -> "dict"

\* ------------------------------------------------------------ world record
World == [cfg |-> cfg, con |-> con, pika |-> pika, loop |-> loop, pb |-> pb, obs |-> obs]

Apply(w) ==
    /\ cfg' = w.cfg
    /\ con' = w.con
    /\ pika' = w.pika
    /\ loop' = w.loop
    /\ pb' = w.pb
    /\ obs' = w.obs
    /\ amqp' = amqp
    /\ kp' = kp
    /\ pc' = pc
    /\ UNCHANGED <<tg, hh, ser>>

NoMsg == [body |-> "", term |-> FALSE]

\* get_health() was not called
NoHealth == [called |-> FALSE, host |-> "", connection |-> "", channel |-> "",
             terminating |-> FALSE, healthy |-> FALSE, result |-> FALSE]

\* Nothing was called yet.
InitObs ==
    [op |-> "init", exc |-> "none", sent |-> <<>>, logs |-> <<>>, acks |-> 0,
     msg |-> NoMsg, log |-> <<>>, attempts |-> 0, stops |-> 0, setupDone |-> FALSE,
     stopSaw |-> "no stop", arg |-> 0, health |-> NoHealth]

\* Start of an entry point or callback: what this call alone did is observed afresh.
Begin(op) ==
    [World EXCEPT !.obs.op = op, !.obs.exc = "none", !.obs.sent = <<>>,
                  !.obs.logs = <<>>, !.obs.acks = 0, !.obs.msg = NoMsg, !.obs.arg = 0,
                  !.obs.health = NoHealth]

Raise(w, e) == [w EXCEPT !.obs.exc = e]

Raised(w) == w.obs.exc # "none"

LogMsg(w, level, msg, arg) ==
    [w EXCEPT !.obs.logs = Append(@, [level |-> level, msg |-> msg, arg |-> arg])]

\* An event of the shutdown sequence, kept in order for the whole run.
Event(w, e) == [w EXCEPT !.obs.log = Append(@, e)]

\* ------------------------------------------------------------------ IOLoop
PublishCb(rk, body) == [fn |-> "_publish", rk |-> rk, body |-> body, tag |-> 0, chan |-> 0]
CancelCb(chan, tag) == [fn |-> "basic_cancel", rk |-> "", body |-> "", tag |-> tag, chan |-> chan]

\* the loop the connection runs on (self._connection.ioloop): always there
loop_call_later(w, delay, fn) ==
    [w EXCEPT !.loop.timers = Append(@, [delay |-> delay, fn |-> fn])]

\* self._ioloop.call_later(...): self._ioloop may be None
ioloop_call_later(w, delay, fn) ==
    IF w.cfg.ioloop THEN loop_call_later(w, delay, fn) ELSE Raise(w, "AttributeError")

\* self._ioloop.add_callback(...): self._ioloop may be None
ioloop_add_callback(w, cb) ==
    IF w.cfg.ioloop
    THEN [w EXCEPT !.loop.callbacks = Append(@, cb)]
    ELSE Raise(w, "AttributeError")

\* ------------------------------------------------- PingboardConfiguration
\* get_configuration(): self._state.as_configuration(); _state is None until
\* the first configuration came in.
get_configuration(w) ==
    IF w.pb.state THEN [ok |-> TRUE, value |-> "snapshot"]
    ELSE [ok |-> FALSE, value |-> "AttributeError"]

\* on_configuration(cfg): creates the state, then reads cfg.get("configuration");
\* errors of single entries are caught inside the loop.
on_configuration(w, kind) ==
    LET w1 == [w EXCEPT !.pb.state = TRUE]
    IN IF kind = "dict" THEN w1 ELSE Raise(w1, "AttributeError")

\* ------------------------------------------------------------- _publish
ErrorReport(details, original) ==
    [kind |-> "error", message |-> "Invalid JSON received for configuration",
     details |-> details, original |-> original]
Snapshot(value) == [kind |-> "configuration", message |-> "", details |-> "", original |-> value]

\* channel.basic_publish: the channel object must be open
basic_publish(w, rk, body) ==
    IF w.pika.chan.st = "open" /\ w.pika.chan.id = w.con.channel
    THEN [w EXCEPT !.obs.sent = Append(@, [rk |-> rk, body |-> body])]
    ELSE Raise(w, "ChannelWrongStateError")

\* _publish without the check for a channel
publish_unchecked(w, rk, body) == basic_publish(w, rk, body)

publish(w, rk, body) ==
    IF w.con.channel # 0
    THEN basic_publish(w, rk, body)
    ELSE LogMsg(w, "warning",
                "Message to %s has been discarded because a channel was not available!", rk)

\* json.dumps({"key": int(idx)})
json_dumps_key(idx) == "{\"key\": " \o ToString(idx) \o "}"
KeyBody(idx) == [kind |-> "key", message |-> "", details |-> "", original |-> json_dumps_key(idx)]
StatusBody == [kind |-> "status", message |-> "", details |-> "", original |-> "status"]

\* AmqpConfiguration.rk_key(idx): idx counts from 0
rk_key(w, idx) == w.cfg.rk_key[idx + 1]

publish_status(w, status) == publish(w, w.cfg.rk_status, status)

\* publish_keypress that always addresses the first key
publish_keypress_first_key(w, idx) == publish(w, rk_key(w, 0), KeyBody(idx))

publish_keypress(w, idx) == publish(w, rk_key(w, idx - 1), KeyBody(idx))

\* ---------------------------------------------------------- registration
set_configuration_callback(w, given) == [w EXCEPT !.con.configuration_callback = given]

\* weakref.WeakMethod(provider): anything but a bound method is a TypeError
set_configuration_provider(w, given) ==
    IF given THEN [w EXCEPT !.con.configuration_provider = "live"]
    ELSE Raise(w, "TypeError")

\* ------------------------------------------------------ connect / reconnect
\* _connect(): constructs a TornadoConnection; the constructor may raise.
connect(w, raises) ==
    LET w1 == LogMsg([w EXCEPT !.obs.attempts = @ + 1], "info", "Connecting to %s@%s", "")
    IN IF raises THEN Raise(w1, "Exception")
       ELSE [w1 EXCEPT !.con.connection = w1.obs.attempts,
                       !.pika.conn = [id |-> w1.obs.attempts, st |-> "opening"]]

\* _reconnect without its terminating check
reconnect_unguarded(w, raises) ==
    LET w1 == connect(w, raises)
    IN IF Raised(w1)
       THEN ioloop_call_later(
                LogMsg(Raise(w1, "none"), "error",
                       "Error when connecting to RabbitMQ (will try again in 5 seconds: %s", ""),
                RetryDelay, "_reconnect")
       ELSE w1

reconnect(w, raises) ==
    IF ~w.con.terminating
    THEN LET w1 == connect(w, raises)
         IN IF Raised(w1)
            THEN ioloop_call_later(
                     LogMsg(Raise(w1, "none"), "error",
                            "Error when connecting to RabbitMQ (will try again in 5 seconds: %s", ""),
                     RetryDelay, "_reconnect")
            ELSE w1
    ELSE w

setup(w, raises) == reconnect([w EXCEPT !.obs.setupDone = TRUE], raises)

\* _on_connection_error that only logs
on_connection_error_no_retry(w) ==
    LogMsg(w, "error", "Connection error (trying again in 5 seconds): %s", "")

on_connection_error(w) ==
    ioloop_call_later(
        LogMsg(w, "error", "Connection error (trying again in 5 seconds): %s", ""),
        RetryDelay, "_reconnect")

\* One step of the handshake on a channel: a request of the connector
\* (with its passive flag and routing key) or a confirmation of the broker.
Step(name, passive, rk) == [step |-> name, passive |-> passive, rk |-> rk]
Confirmed(name) == Step(name, FALSE, "")
Stepped(w, s) == [w EXCEPT !.pika.chan.steps = Append(@, s)]

\* self._connection.channel(on_open_callback=...), called in _on_connection_open
connection_channel(w) ==
    IF w.pika.conn.st = "open"
    THEN [w EXCEPT !.pika.chan = [id |-> w.pika.conn.id, st |-> "opening", rpc |-> "none",
                                  consumer |-> 0, cancelled |-> FALSE, unacked |-> 0,
                                  steps |-> <<Confirmed("connection_open")>>]]
    ELSE Raise(w, "ConnectionWrongStateError")

on_connection_open(w) ==
    connection_channel(LogMsg(w, "info", "Connection to %s opened", ""))

\* _on_connection_closed that drops the channel but schedules nothing
on_connection_closed_no_retry(w) ==
    IF ~w.con.terminating
    THEN [LogMsg(w, "warning", "Connection closed unexpectedly, reopening in 5 seconds: %s", "")
             EXCEPT !.con.channel = 0]
    ELSE w

on_connection_closed(w) ==
    IF ~w.con.terminating
    THEN loop_call_later(
             [LogMsg(w, "warning", "Connection closed unexpectedly, reopening in 5 seconds: %s", "")
                 EXCEPT !.con.channel = 0],
             RetryDelay, "_reconnect")
    ELSE w

\* --------------------------------------------------------------- handshake
\* an RPC on self._channel: the channel object must be open
channel_rpc(w, rpc) ==
    IF w.con.channel # 0 /\ w.pika.chan.st = "open" /\ w.pika.chan.id = w.con.channel
    THEN [w EXCEPT !.pika.chan.rpc = rpc]
    ELSE Raise(w, IF w.con.channel = 0 THEN "AttributeError" ELSE "ChannelWrongStateError")

\* a request with a callback: recorded when the channel accepted it
channel_request(w, rpc, s) ==
    LET w1 == channel_rpc(w, rpc)
    IN IF Raised(w1) THEN w1 ELSE Stepped(w1, s)

exchange_declare(w, passive) == channel_request(w, "exchange", Step("exchange_declare", passive, ""))
queue_declare(w, passive) == channel_request(w, "queue", Step("queue_declare", passive, ""))
queue_bind(w, rk) == channel_request(w, "bind", Step("queue_bind", FALSE, rk))

on_channel_open(w) ==
    LET w1 == LogMsg([w EXCEPT !.con.channel = w.pika.chan.id], "info", "Channel established", "")
    IN exchange_declare(w1, ~w1.cfg.declare)

\* self._connection.close()
connection_close(w) ==
    IF w.pika.conn.st = "open"
    THEN [w EXCEPT !.pika.conn.st = "closing"]
    ELSE Raise(w, "ConnectionWrongStateError")

\* _on_channel_closed that keeps the channel handle
on_channel_closed_keeps_handle(w) ==
    LET w1 == LogMsg(w, "warning", "Channel %i has been closed unexpectedly: %s", "")
    IN IF w1.con.connection # 0 /\ w1.pika.conn.st # "closed"
       THEN connection_close(w1)
       ELSE w1

\* _on_channel_closed that schedules a retry of its own
on_channel_closed_retries(w) ==
    LET w1 == loop_call_later(
                  [LogMsg(w, "warning", "Channel %i has been closed unexpectedly: %s", "")
                      EXCEPT !.con.channel = 0],
                  RetryDelay, "_reconnect")
    IN IF w1.con.connection # 0 /\ w1.pika.conn.st # "closed"
       THEN connection_close(w1)
       ELSE w1

on_channel_closed(w) ==
    LET w1 == [LogMsg(w, "warning", "Channel %i has been closed unexpectedly: %s", "")
                  EXCEPT !.con.channel = 0]
    IN IF w1.con.connection # 0 /\ w1.pika.conn.st # "closed"
       THEN connection_close(w1)
       ELSE w1

\* _on_exchange_declare that starts consuming at once
on_exchange_declare_skip_queue(w) ==
    LET w1 == LogMsg(w, "info", "Starting to consume on queue %s", "")
    IN IF w1.con.channel # 0 /\ w1.pika.chan.st = "open" /\ w1.pika.chan.id = w1.con.channel
       THEN Stepped([w1 EXCEPT !.pika.chan.consumer = w1.pika.chan.id,
                               !.con.consumer_tag = w1.pika.chan.id],
                    Confirmed("basic_consume"))
       ELSE Raise(w1, "ChannelWrongStateError")

on_exchange_declare(w) == queue_declare(w, ~w.cfg.declare)

\* self._channel.basic_consume(...): returns the consumer tag at once
basic_consume(w) ==
    IF w.con.channel # 0 /\ w.pika.chan.st = "open" /\ w.pika.chan.id = w.con.channel
    THEN Stepped([w EXCEPT !.pika.chan.consumer = w.pika.chan.id,
                           !.con.consumer_tag = w.pika.chan.id],
                 Confirmed("basic_consume"))
    ELSE Raise(w, IF w.con.channel = 0 THEN "AttributeError" ELSE "ChannelWrongStateError")

on_bind(w) ==
    basic_consume(LogMsg(w, "info", "Starting to consume on queue %s", ""))

\* _on_queue_declare that never binds
on_queue_declare_no_bind(w) == on_bind(w)

on_queue_declare(w) ==
    IF w.cfg.declare
    THEN queue_bind(w, w.cfg.rk_config)
    ELSE on_bind(w)

\* ------------------------------------------------------------ consume
\* channel.basic_ack(delivery_tag=...)
basic_ack(w) ==
    [w EXCEPT !.obs.acks = @ + 1,
              !.pika.chan.unacked = IF @ > 0 THEN @ - 1 ELSE 0]

\* the acknowledgement without the terminating check
ack_always(w) == basic_ack(w)

ack_unless_terminating(w) ==
    IF ~w.con.terminating THEN basic_ack(w) ELSE w

on_configuration_callback(w, body) ==
    LET d == json_loads_decode(body)
        w1 == IF w.con.configuration_callback
              THEN CASE d = "UnicodeDecodeError" -> Raise(w, d)
                     [] d = "JSONDecodeError" ->
                            publish(LogMsg(w, "warning",
                                           "Could not decode configuration snippet: %s", ""),
                                    w.cfg.rk_status, ErrorReport(d, body))
                     [] OTHER -> on_configuration(w, d)
              ELSE w
    IN IF Raised(w1) THEN w1 ELSE ack_unless_terminating(w1)

\* ------------------------------------------------------------ stop
stop_flush(w) ==
    IF w.cfg.rk_config # "" /\ w.con.configuration_provider = "live"
    THEN LET w1 == LogMsg(w, "info", "Trying to send current configuration.", "")
             c == get_configuration(w1)
         IN IF ~c.ok THEN Raise(w1, c.value)
            ELSE LET w2 == ioloop_add_callback(w1, PublishCb(w1.cfg.rk_config, Snapshot(c.value)))
                 IN IF Raised(w2) THEN w2 ELSE Event(w2, "flush_scheduled")
    ELSE w

stop_cancel(w) ==
    IF w.con.channel # 0 /\ w.con.consumer_tag # 0
    THEN LET w1 == ioloop_add_callback(w, CancelCb(w.con.channel, w.con.consumer_tag))
         IN IF Raised(w1) THEN w1 ELSE Event(w1, "cancel_scheduled")
    ELSE w

\* stop() queueing the cancel ahead of the flush
stop_cancel_first(w) ==
    LET w0 == LogMsg([w EXCEPT !.con.terminating = TRUE, !.obs.stops = @ + 1],
                     "info", "Terminating RabbitMQ consumer", "")
        w1 == stop_cancel(w0)
    IN IF Raised(w1) THEN w1 ELSE stop_flush(w1)

\* stop() that does not mark the connector as terminating
stop_not_terminating(w) ==
    LET w0 == LogMsg([w EXCEPT !.obs.stops = @ + 1],
                     "info", "Terminating RabbitMQ consumer", "")
        w1 == stop_flush(w0)
    IN IF Raised(w1) THEN w1 ELSE stop_cancel(w1)

stop(w) ==
    LET w0 == LogMsg([w EXCEPT !.con.terminating = TRUE, !.obs.stops = @ + 1],
                     "info", "Terminating RabbitMQ consumer", "")
        w1 == stop_flush(w0)
    IN IF Raised(w1) THEN w1 ELSE stop_cancel(w1)

\* ------------------------------------------------------------ get_health
\* The label of a connection or channel the connector holds (0: none).
Label(handle, st) == IF handle = 0 THEN "not established" ELSE st

\* get_health(): the status and the healthy flag; healthy in the consuming
\* steady state while not terminating.
get_health(w) ==
    LET healthy == /\ ~w.con.terminating
                   /\ w.con.connection # 0 /\ w.pika.conn.st = "open"
                   /\ w.con.channel # 0 /\ w.pika.chan.id = w.con.channel
                   /\ w.pika.chan.st = "open" /\ w.pika.chan.consumer # 0
    IN [w EXCEPT !.obs.health =
           [called |-> TRUE, host |-> w.cfg.host,
            connection |-> Label(w.con.connection, w.pika.conn.st),
            channel |-> Label(w.con.channel, w.pika.chan.st),
            terminating |-> w.con.terminating,
            healthy |-> healthy, result |-> healthy]]

\* channel.basic_cancel(consumer_tag, callback) on the channel object bound
\* when stop() queued it
basic_cancel(w, chan, tag) ==
    IF ~(w.pika.chan.id = chan /\ w.pika.chan.st = "open")
    THEN Event(Raise(w, "ChannelWrongStateError"), "cancel_raised")
    ELSE IF w.pika.chan.cancelled \/ w.pika.chan.consumer # tag
         THEN Event(w, "cancel_skipped")
         ELSE Event([w EXCEPT !.pika.chan.cancelled = TRUE, !.pika.chan.rpc = "cancel"],
                    "cancel_sent")

\* self._channel.close()
channel_close(w) ==
    IF w.pika.chan.st = "open" /\ w.pika.chan.id = w.con.channel
    THEN Event([w EXCEPT !.pika.chan.st = "closing", !.pika.chan.rpc = "none"], "channel_close")
    ELSE Raise(w, "ChannelWrongStateError")

on_cancel(w) ==
    IF w.con.channel # 0 THEN channel_close(w) ELSE w

\* a callback queued with add_callback runs
run_callback(w, cb) ==
    IF cb.fn = "_publish"
    THEN LET w1 == publish(w, cb.rk, cb.body)
         IN Event(w1, IF Raised(w1) THEN "flush_raised"
                      ELSE IF Len(w1.obs.sent) > 0 THEN "flush_published"
                      ELSE "flush_discarded")
    ELSE basic_cancel(w, cb.chan, cb.tag)

\* ---------------------------------------------------------------- Init
\* the guard, the health registry and the serial writer as constructed
InitService ==
    /\ tg = TerminationGuard(TRUE)
    /\ hh = HealthHandler
    /\ ser = PingboardSerial(FALSE)

Init ==
    /\ cfg \in [ioloop : BOOLEAN, declare : BOOLEAN,
                rk_config : {"", DEFAULT_RK_CONFIGURATION},
                rk_status : {DEFAULT_RK_STATUS}, rk_key : {DEFAULT_RK_KEY},
                host : {"localhost"}]
    /\ con \in [terminating : {FALSE}, connection : {0}, channel : {0}, consumer_tag : {0},
                configuration_callback : BOOLEAN,
                configuration_provider : {"unset", "dead", "live"}]
    /\ pika = [conn |-> [id |-> 0, st |-> "none"], orphan |-> 0,
               chan |-> [id |-> 0, st |-> "none", rpc |-> "none", consumer |-> 0,
                         cancelled |-> FALSE, unacked |-> 0, steps |-> <<>>]]
    /\ loop = [callbacks |-> <<>>, timers |-> <<>>]
    /\ pb = [state |-> FALSE]
    /\ obs = InitObs
    /\ amqp = [env |-> <<>>, args |-> <<>>, result |-> Pending]
    /\ kp = InitParser
    /\ pc = InitPingboardConfiguration(FALSE)
    /\ InitService

\* ---------------------------------------------------------------- actions
\* app.main calls setup() once; a later call matters only after stop()
Setup ==
    /\ ~obs.setupDone \/ con.terminating
    /\ con.terminating \/ obs.attempts < MaxConnect
    /\ \E raises \in BOOLEAN : Apply(setup(Begin("setup"), raises))

\* What the first stop() call found: a consumer active on the open channel the
\* connector holds, a scheduler, and a live provider that has a snapshot.
StopFinds ==
    IF /\ con.channel # 0 /\ pika.chan.st = "open" /\ pika.chan.id = con.channel
       /\ con.consumer_tag # 0 /\ pika.chan.consumer = con.consumer_tag
       /\ ~pika.chan.cancelled
    THEN IF /\ cfg.ioloop /\ cfg.rk_config # ""
            /\ con.configuration_provider = "live" /\ pb.state
         THEN "consuming, snapshot"
         ELSE "consuming"
    ELSE "other"

Stop ==
    /\ obs.stops < MaxStop
    /\ Apply(stop([Begin("stop") EXCEPT !.obs.stopSaw = IF obs.stops = 0 THEN StopFinds ELSE @]))

\* a due call_later(5, self._reconnect) timer fires
TimerFire ==
    /\ loop.timers # <<>>
    /\ con.terminating \/ obs.attempts < MaxConnect
    /\ \E raises \in BOOLEAN :
         Apply(reconnect([Begin("_reconnect") EXCEPT !.loop.timers = Tail(@)], raises))

\* the IOLoop runs the oldest add_callback entry
RunCallback ==
    /\ loop.callbacks # <<>>
    /\ Apply(run_callback([Begin(Head(loop.callbacks).fn) EXCEPT !.loop.callbacks = Tail(@)],
                          Head(loop.callbacks)))

ConnOpened ==
    /\ pika.conn.st = "opening"
    /\ Apply(on_connection_open([Begin("_on_connection_open") EXCEPT !.pika.conn.st = "open"]))

ConnOpenFailed ==
    /\ pika.conn.st = "opening"
    /\ Apply(on_connection_error([Begin("_on_connection_error") EXCEPT !.pika.conn.st = "closed"]))

ChanOpened ==
    /\ pika.conn.st = "open"
    /\ pika.chan.st = "opening"
    /\ Apply(on_channel_open(Stepped([Begin("_on_channel_open") EXCEPT !.pika.chan.st = "open"],
                                        Confirmed("channel_open"))))

ExchangeDeclareOk ==
    /\ pika.chan.st = "open"
    /\ pika.chan.rpc = "exchange"
    /\ Apply(on_exchange_declare(Stepped([Begin("_on_exchange_declare") EXCEPT !.pika.chan.rpc = "none"],
                                         Confirmed("exchange_declare_ok"))))

QueueDeclareOk ==
    /\ pika.chan.st = "open"
    /\ pika.chan.rpc = "queue"
    /\ Apply(on_queue_declare(Stepped([Begin("_on_queue_declare") EXCEPT !.pika.chan.rpc = "none"],
                                      Confirmed("queue_declare_ok"))))

BindOk ==
    /\ pika.chan.st = "open"
    /\ pika.chan.rpc = "bind"
    /\ Apply(on_bind(Stepped([Begin("_on_bind") EXCEPT !.pika.chan.rpc = "none"],
                             Confirmed("queue_bind_ok"))))

\* the broker delivers a message to the consumer (at most PrefetchCount unacknowledged)
Deliver ==
    /\ pika.chan.st = "open"
    /\ pika.chan.consumer # 0
    /\ ~pika.chan.cancelled
    /\ pika.chan.unacked < PrefetchCount
    /\ \E body \in Bodies :
         Apply(on_configuration_callback(
                   [Begin("_on_configuration_callback")
                       EXCEPT !.pika.chan.unacked = @ + 1,
                              !.obs.msg = [body |-> body, term |-> con.terminating]],
                   body))

CancelOk ==
    /\ pika.chan.st = "open"
    /\ pika.chan.rpc = "cancel"
    /\ Apply(on_cancel(Event([Begin("_on_cancel") EXCEPT !.pika.chan.rpc = "none",
                                                         !.pika.chan.consumer = 0],
                             "cancel_ok")))

\* Channel.CloseOk for the close the connector asked for
ChanCloseOk ==
    /\ pika.chan.st = "closing"
    /\ Apply(on_channel_closed([Begin("_on_channel_closed") EXCEPT !.pika.chan.st = "closed"]))

\* the broker closes the channel (e.g. a passive declare of a missing entity)
ChanClosedByBroker ==
    /\ pika.chan.st = "open"
    /\ Apply(on_channel_closed([Begin("_on_channel_closed")
                                   EXCEPT !.pika.chan.st = "closed", !.pika.chan.rpc = "none"]))

\* Connection.CloseOk for the close the connector asked for
ConnCloseOk ==
    /\ pika.conn.st = "closing"
    /\ Apply(on_connection_closed([Begin("_on_connection_closed") EXCEPT !.pika.conn.st = "closed"]))

\* the connection is lost: pika marks it closed, closes its channels (their
\* close callbacks run), then runs the connection's close callbacks
ConnLost ==
    /\ pika.conn.st = "open"
    /\ LET w0 == [Begin("_on_connection_closed") EXCEPT !.pika.conn.st = "closed"]
           w1 == IF w0.pika.chan.st \in {"open", "closing"}
                 THEN on_channel_closed([w0 EXCEPT !.pika.chan.st = "closed",
                                                   !.pika.chan.rpc = "none"])
                 ELSE IF w0.pika.chan.st = "opening"
                      THEN [w0 EXCEPT !.pika.chan.st = "closed"]
                      ELSE w0
       IN Apply(on_connection_closed(w1))

Next ==
    \/ Setup
    \/ Stop
    \/ TimerFire
    \/ RunCallback
    \/ ConnOpened
    \/ ConnOpenFailed
    \/ ChanOpened
    \/ ExchangeDeclareOk
    \/ QueueDeclareOk
    \/ BindOk
    \/ Deliver
    \/ CancelOk
    \/ ChanCloseOk
    \/ ChanClosedByBroker
    \/ ConnCloseOk
    \/ ConnLost

Spec == Init /\ [][Next]_vars

\* The application reports a status, or a key press, at any time.
PublishStatus ==
    Apply(publish_status(Begin("publish_status"), StatusBody))

PublishKeypress ==
    \E idx \in 1..Len(cfg.rk_key) :
        Apply(publish_keypress([Begin("publish_keypress") EXCEPT !.obs.arg = idx], idx))

\* The wiring registers callback and provider before it calls setup().
\* given = FALSE: the argument is None
SetConfigurationCallback ==
    /\ ~obs.setupDone /\ ~con.terminating
    /\ \E given \in BOOLEAN :
        Apply(set_configuration_callback(
                  [Begin("set_configuration_callback") EXCEPT !.obs.arg = IF given THEN 1 ELSE 0],
                  given))

SetConfigurationProvider ==
    /\ ~obs.setupDone /\ ~con.terminating
    /\ \E given \in BOOLEAN :
        Apply(set_configuration_provider(
                  [Begin("set_configuration_provider") EXCEPT !.obs.arg = IF given THEN 1 ELSE 0],
                  given))

\* The provider's owner is collected: the weak reference is all the connector holds.
OwnerDestroyed ==
    /\ con.configuration_provider = "live"
    /\ Apply([Begin("owner destroyed") EXCEPT !.con.configuration_provider = "dead"])

\* The connector as app.main wires it: handler and provider registered,
\* default configuration routing key.
InitWired ==
    /\ Init
    /\ con.configuration_callback
    /\ con.configuration_provider = "live"
    /\ cfg.rk_config = DEFAULT_RK_CONFIGURATION

NextPublish == Next \/ PublishStatus \/ PublishKeypress

PublishSpec == InitWired /\ [][NextPublish]_vars

\* The connector as its constructor leaves it: no callback, no provider.
InitConstructed ==
    /\ Init
    /\ ~con.configuration_callback
    /\ con.configuration_provider = "unset"

NextRegistration ==
    \/ Next
    \/ SetConfigurationCallback
    \/ SetConfigurationProvider
    \/ OwnerDestroyed

RegistrationSpec == InitConstructed /\ [][NextRegistration]_vars

\* The health endpoint asks the connector at any time.
GetHealth == Apply(get_health(Begin("get_health")))

NextHealth == Next \/ GetHealth

HealthSpec == InitWired /\ [][NextHealth]_vars

\* No connector is running.
Idle ==
    /\ cfg = [ioloop |-> FALSE, declare |-> FALSE, rk_config |-> DEFAULT_RK_CONFIGURATION,
              rk_status |-> DEFAULT_RK_STATUS, rk_key |-> DEFAULT_RK_KEY,
              host |-> "localhost"]
    /\ con = [terminating |-> FALSE, connection |-> 0, channel |-> 0, consumer_tag |-> 0,
              configuration_callback |-> FALSE, configuration_provider |-> "unset"]
    /\ pika = [conn |-> [id |-> 0, st |-> "none"], orphan |-> 0,
               chan |-> [id |-> 0, st |-> "none", rpc |-> "none", consumer |-> 0,
                         cancelled |-> FALSE, unacked |-> 0, steps |-> <<>>]]
    /\ loop = [callbacks |-> <<>>, timers |-> <<>>]
    /\ pb = [state |-> FALSE]
    /\ obs = InitObs

\* ------------------------------------------- constructing a configuration
\* Arguments by example: absent, empty and a proper value for each checked
\* field; rk_key omitted, or a list of no, one or four entries.
KeyEntries == {None, "", "a.key"}
KeyArgs ==
    {NoKeys, KeyList(<<>>)}
    \cup {KeyList(<<k>>) : k \in KeyEntries}
    \cup {KeyList(items) : items \in [1..Len(DEFAULT_RK_KEY) -> KeyEntries]}

ConstructorArgs ==
    [amqp_host : {None, "", "localhost"}, amqp_user : {None, "", "user"},
     amqp_passwd : {None}, exchange : {DEFAULT_EXCHANGE},
     rk_status : {None, "", DEFAULT_RK_STATUS}, rk_key : KeyArgs,
     rk_config : {"", DEFAULT_RK_CONFIGURATION},
     qu_config : {None, "", DEFAULT_QU_CONFIGURATION}, declare : BOOLEAN]

\* One call of the constructor is observed.
InitConfig ==
    /\ Idle
    /\ \E a \in ConstructorArgs : amqp = [env |-> <<>>, args |-> <<a>>, result |-> Pending]
    /\ kp = InitParser
    /\ pc = InitPingboardConfiguration(FALSE)
    /\ InitService

Construct ==
    /\ amqp.env = <<>> /\ amqp.args # <<>> /\ amqp.result = Pending
    /\ amqp' = [amqp EXCEPT !.result = AmqpConfiguration_init(amqp.args[1])]
    /\ UNCHANGED <<cfg, con, pika, loop, pb, obs, kp, pc, tg, hh, ser>>

NextConfig == Construct

ConfigSpec == InitConfig /\ [][NextConfig]_vars

\* ------------------------------------- a configuration from the environment
\* Environments by example: every variable unset or set, host and user also
\* empty, the declare flag also empty, 'false' and 'true'.
Environments ==
    [AMQP_HOST : {Unset, "", "localhost"}, AMQP_USER : {Unset, "", "user"},
     AMQP_PASS : {Unset, "UkVBRE1F"}, AMQP_EXCHANGE : {Unset, "cust_1"},
     AMQP_RK_STATUS : {Unset, "cust_2"},
     AMQP_RK_KEY_1 : {Unset, "cust_3_1"}, AMQP_RK_KEY_2 : {Unset, "cust_3_2"},
     AMQP_RK_KEY_3 : {Unset, "cust_3_3"}, AMQP_RK_KEY_4 : {Unset, "cust_3_4"},
     AMQP_RK_CONFIG : {Unset, "cust_4"}, AMQP_QU_CONFIG : {Unset, "cust_5"},
     AMQP_DECLARE : {Unset, "", "false", "true"}]

\* One call of from_environment is observed.
InitEnv ==
    /\ Idle
    /\ \E e \in Environments : amqp = [env |-> <<e>>, args |-> <<>>, result |-> Pending]
    /\ kp = InitParser
    /\ pc = InitPingboardConfiguration(FALSE)
    /\ InitService

FromEnvironment ==
    /\ amqp.env # <<>> /\ amqp.result = Pending
    /\ amqp' = [amqp EXCEPT !.args = <<environment_args(amqp.env[1])>>,
                            !.result = from_environment(amqp.env[1])]
    /\ UNCHANGED <<cfg, con, pika, loop, pb, obs, kp, pc, tg, hh, ser>>

NextEnv == FromEnvironment

EnvSpec == InitEnv /\ [][NextEnv]_vars

\* ------------------------------------------------------- feeding a parser
\* Key codes by example: the modifier, the four keys and one other code.
Codes == {MODIFIER_CODE, 1} \cup {KEYS[i] : i \in 1..Len(KEYS)}

InitKeys ==
    /\ Idle
    /\ amqp = [env |-> <<>>, args |-> <<>>, result |-> Pending]
    /\ kp = InitParser
    /\ pc = InitPingboardConfiguration(FALSE)
    /\ InitService

\* PingboardEvDev queues process(event.code, bool(event.value)) for each key event.
Process ==
    /\ Len(kp.events) < MaxEvents
    /\ \E code \in Codes, enabled \in BOOLEAN :
         kp' = process([kp EXCEPT !.events = Append(@, [code |-> code, enabled |-> enabled]),
                                  !.logs = <<>>, !.exc = "none"],
                       code, enabled)
    /\ UNCHANGED <<cfg, con, pika, loop, pb, obs, amqp, pc, tg, hh, ser>>

NextKeys == Process

KeySpec == InitKeys /\ [][NextKeys]_vars

\* setup() called again while the connection of an earlier setup() is opening
\* or open.  pika.orphan is the connection object self._connection pointed to
\* before, which stays registered with the IOLoop.
\* -------------------------------------------- PingboardConfiguration, driven
\* the valid entries: brightness, one key colour, two blinks
ValidEntries ==
    <<Entry("brightness", <<0>>),
      Entry("keys", <<Item(1, "", <<255, 255, 255>>)>>),
      Entry("blink", <<Item(3, "SINGLE", <<128, 128, 128>>), Item(4, "SHORT", <<0, 0, 0>>)>>)>>

\* entries with an unknown key put after the first k of them
WithUnknownAt(entries, k) ==
    SubSeq(entries, 1, k) \o <<Entry("foo", <<1>>)>> \o SubSeq(entries, k + 1, Len(entries))

\* The structures on_configuration is called with.
Structures ==
    {Structure("None", FALSE, <<>>), Structure("list", FALSE, <<>>),
     Structure("dict", FALSE, <<>>), Structure("dict", TRUE, <<>>),
     Structure("dict", TRUE, <<Entry("foo", <<1>>)>>),
     Structure("dict", TRUE, <<Entry("foo", <<1>>), Entry("bar", <<>>)>>),
     Structure("dict", TRUE, ValidEntries),
     Structure("dict", TRUE, <<Entry("brightness", <<>>)>>),
     Structure("dict", TRUE, <<Entry("blink", <<Item(1, "FAST", <<0, 0, 0>>)>>),
                               Entry("brightness", <<7>>)>>),
     Structure("dict", TRUE, <<Entry("keys", <<Item(5, "", <<255, 255, 255>>),
                                               Item(1, "", <<255, 255, 255>>)>>),
                               Entry("blink", <<Item(0, "LONG", <<128, 128, 128>>)>>)>>)}
    \cup {Structure("dict", TRUE, WithUnknownAt(ValidEntries, k)) : k \in 0..Len(ValidEntries)}

InitPingboard ==
    /\ Idle
    /\ amqp = [env |-> <<>>, args |-> <<>>, result |-> Pending]
    /\ kp = InitParser
    /\ \E port_ok \in BOOLEAN : pc = InitPingboardConfiguration(port_ok)
    /\ InitService

\* Each call finds the device answering or not.
OnConfiguration ==
    /\ pc.calls < MaxCalls
    /\ \E c \in Structures, port_ok \in BOOLEAN :
         pc' = PingboardConfiguration_on_configuration([pc EXCEPT !.port_ok = port_ok], c)
    /\ UNCHANGED <<cfg, con, pika, loop, pb, obs, amqp, kp, tg, hh, ser>>

GetConfiguration ==
    /\ pc.calls < MaxCalls
    /\ pc' = PingboardConfiguration_get_configuration(pc)
    /\ UNCHANGED <<cfg, con, pika, loop, pb, obs, amqp, kp, tg, hh, ser>>

\* PingboardEvDev calls push_config when it acquires the device.
PushConfig ==
    /\ pc.calls < MaxCalls
    /\ \E port_ok \in BOOLEAN : pc' = push_config([pc EXCEPT !.port_ok = port_ok])
    /\ UNCHANGED <<cfg, con, pika, loop, pb, obs, amqp, kp, tg, hh, ser>>

NextPingboard == OnConfiguration \/ GetConfiguration \/ PushConfig
PingboardSpec == InitPingboard /\ [][NextPingboard]_vars

\* ------------------------------------------------------- service, driven
\* app.main registers its handlers before the loop starts.
AddTerminationHandler ==
    /\ tg.triggers = 0 /\ Len(tg.handlers) < MaxHandlers
    /\ \E handler \in {<<>>} \cup {<<[id |-> Len(tg.handlers) + 1, raises |-> r]>> : r \in BOOLEAN} :
         tg' = add_termination_handler(tg, handler)
    /\ UNCHANGED <<cfg, con, pika, loop, pb, obs, amqp, kp, pc, hh, ser>>

\* SIGTERM arrives or terminate() is called
Trigger ==
    /\ tg.triggers < MaxTriggers
    /\ tg' = on_signal(tg)
    /\ UNCHANGED <<cfg, con, pika, loop, pb, obs, amqp, kp, pc, hh, ser>>

\* the periodic callback fires
StopOnSignal ==
    /\ ~tg.stopped
    /\ tg' = stop_on_signal(tg)
    /\ UNCHANGED <<cfg, con, pika, loop, pb, obs, amqp, kp, pc, hh, ser>>

InitGuard ==
    /\ Idle
    /\ amqp = [env |-> <<>>, args |-> <<>>, result |-> Pending]
    /\ kp = InitParser
    /\ pc = InitPingboardConfiguration(FALSE)
    /\ \E ioloop \in BOOLEAN : tg = TerminationGuard(ioloop)
    /\ hh = HealthHandler
    /\ ser = PingboardSerial(FALSE)

NextGuard == AddTerminationHandler \/ Trigger \/ StopOnSignal
GuardSpec == InitGuard /\ [][NextGuard]_vars

InitSerial ==
    /\ Idle
    /\ amqp = [env |-> <<>>, args |-> <<>>, result |-> Pending]
    /\ kp = InitParser
    /\ pc = InitPingboardConfiguration(FALSE)
    /\ tg = TerminationGuard(TRUE)
    /\ hh = HealthHandler
    /\ \E port \in BOOLEAN : ser = PingboardSerial(port)

\* A command is written; the port offers one outcome more than _write can use.
Write ==
    /\ \E outcomes \in [1..(Retries + 1) -> {"OK", "other", "undecodable", "SerialException"}],
          found \in [1..(Retries + 1) -> BOOLEAN],
          command \in {DimCommand(0), ColCommand(1, <<255, 255, 255>>)} :
         ser' = write(ser, command, outcomes, found)
    /\ UNCHANGED <<cfg, con, pika, loop, pb, obs, amqp, kp, pc, tg, hh>>

\* PingboardEvDev calls scan_port when it acquires the device.
ScanPort ==
    /\ \E port \in BOOLEAN : ser' = [ser EXCEPT !.op = "scan_port", !.port = port]
    /\ UNCHANGED <<cfg, con, pika, loop, pb, obs, amqp, kp, pc, tg, hh>>

NextSerial == Write \/ ScanPort
SerialSpec == InitSerial /\ [][NextSerial]_vars

InitRegistry ==
    /\ Idle
    /\ amqp = [env |-> <<>>, args |-> <<>>, result |-> Pending]
    /\ kp = InitParser
    /\ pc = InitPingboardConfiguration(FALSE)
    /\ InitService

\* app.main registers get_health bound methods; the signature asks for a
\* HealthProvider object.
AddHealthProvider ==
    /\ Len(hh.registered) < MaxProviders
    /\ \E key \in {"git-version", "amqp", "uptime"},
          provider \in {<<>>} \cup {<<[kind |-> k, healthy |-> b]>> :
                                      k \in {"object", "method"}, b \in BOOLEAN},
          collected \in BOOLEAN :
         hh' = add_health_provider(hh, key, provider, collected)
    /\ UNCHANGED <<cfg, con, pika, loop, pb, obs, amqp, kp, pc, tg, ser>>

\* GET /v0/health
HealthGet ==
    /\ hh' = HealthHandler_get(hh)
    /\ UNCHANGED <<cfg, con, pika, loop, pb, obs, amqp, kp, pc, tg, ser>>

NextRegistry == AddHealthProvider \/ HealthGet
RegistrySpec == InitRegistry /\ [][NextRegistry]_vars

SetupAgain ==
    /\ obs.setupDone /\ ~con.terminating
    /\ pika.conn.st \in {"opening", "open"}
    /\ obs.attempts < MaxConnect
    /\ \E raises \in BOOLEAN :
         LET w1 == setup(Begin("setup"), raises)
         IN Apply(IF w1.con.connection # con.connection
                  THEN [w1 EXCEPT !.pika.orphan = con.connection]
                  ELSE w1)

\* Behaviours are followed up to the second setup(); what two live
\* connections do to one connector afterwards is not explored.
NextResetup == (pika.orphan = 0 /\ Next) \/ SetupAgain

ResetupSpec == Init /\ [][NextResetup]_vars

\* The IOLoop runs a due timer, and a Connection.Close the connector sent is
\* answered (or the connection drops).
FairSpec == Spec /\ WF_vars(TimerFire) /\ WF_vars(ConnCloseOk)

\* ============================================================ properties
Count(seq, e) == Cardinality({i \in 1..Len(seq) : seq[i] = e})

IsPrefix(a, b) == Len(a) <= Len(b) /\ \A i \in 1..Len(a) : a[i] = b[i]

Scheduling == {"flush_scheduled", "cancel_scheduled"}

\* what the queued shutdown callbacks and their confirmations did, in order
Executed == SelectSeq(obs.log, LAMBDA e : e \notin Scheduling)

DrainOrder == <<"flush_published", "cancel_sent", "cancel_ok", "channel_close">>

\* C1: a stop() that finds an open channel, an active consumer and a live
\* provider with a snapshot queues the flush before the cancel; the cancel
\* callback never runs before the flush callback, the channel is closed only
\* after the cancel is confirmed, and for that one stop() the events are one
\* flush publish, then the cancel, then its confirmation, then the close
\* (cut short only where the channel was lost in between).
C1_FlushThenCancelThenClose ==
    obs.stopSaw = "consuming, snapshot" =>
        /\ Len(obs.log) >= 2
        /\ obs.log[1] = "flush_scheduled"
        /\ obs.log[2] = "cancel_scheduled"
        /\ \A i \in 1..Len(obs.log) :
              /\ obs.log[i] \in {"cancel_sent", "cancel_skipped", "cancel_raised"} =>
                    \E j \in 1..(i - 1) :
                       obs.log[j] \in {"flush_published", "flush_discarded", "flush_raised"}
              /\ obs.log[i] = "channel_close" =>
                    \E j \in 1..(i - 1) : obs.log[j] = "cancel_ok"
              /\ obs.log[i] = "cancel_ok" =>
                    \E j \in 1..(i - 1) : obs.log[j] = "cancel_sent"
        /\ obs.stops = 1 =>
              \/ IsPrefix(Executed, DrainOrder)
              \/ /\ pika.chan.st = "closed"
                 /\ \/ IsPrefix(Executed, <<"flush_published", "cancel_raised">>)
                    \/ IsPrefix(Executed, <<"flush_discarded", "cancel_raised">>)

C1_Witness ==
    /\ obs.stopSaw = "consuming, snapshot"
    /\ obs.stops = 1
    /\ Executed = DrainOrder

\* C2: over any number of stop() calls at most one configuration flush and at
\* most one consumer cancel are scheduled.
C2_StopIdempotent ==
    /\ Count(obs.log, "flush_scheduled") <= 1
    /\ Count(obs.log, "cancel_scheduled") <= 1

\* C3: once terminating is set, no step acknowledges a message.
C3_NoAckWhileTerminating ==
    [][con.terminating => obs'.acks = 0]_vars

C3_Witness ==
    /\ con.terminating
    /\ obs.op = "_on_configuration_callback"
    /\ obs.msg.term
    /\ obs.msg.body = BodyObject
    /\ obs.exc = "none"

ErrorReports ==
    Cardinality({i \in 1..Len(obs.sent) :
                    obs.sent[i].rk = cfg.rk_status /\ obs.sent[i].body.kind = "error"})

\* C4: a body that is not valid JSON yields exactly one error report on the
\* status routing key and, outside termination, exactly one acknowledgement,
\* whether or not a configuration handler is registered.
C4_MalformedReportedAndAcked ==
    (obs.op = "_on_configuration_callback" /\ json_loads_decode(obs.msg.body) = "JSONDecodeError") =>
        /\ ErrorReports = 1
        /\ ~obs.msg.term => obs.acks = 1

\* C5: a message delivered while not terminating is acknowledged exactly once,
\* whatever the handler does with it.
C5_AckedUnlessTerminating ==
    (obs.op = "_on_configuration_callback" /\ ~obs.msg.term) => obs.acks = 1

Retry == [delay |-> RetryDelay, fn |-> "_reconnect"]

\* the step was a connect attempt whose TornadoConnection constructor raised
ConnectRaisedStep ==
    /\ obs'.op \in {"setup", "_reconnect"}
    /\ obs'.attempts = obs.attempts + 1
    /\ pika'.conn.id # obs'.attempts

\* C6: with a scheduler and not terminating, a failed connect attempt (the
\* connect call raises, or the open-error callback fires) schedules exactly
\* one _reconnect timer, with delay RetryDelay.
C6_OneRetryPerFailure ==
    [][(cfg.ioloop /\ ~con.terminating) =>
          /\ obs'.op = "_on_connection_error" => loop'.timers = Append(loop.timers, Retry)
          /\ (ConnectRaisedStep /\ obs'.op = "setup") => loop'.timers = Append(loop.timers, Retry)
          /\ (ConnectRaisedStep /\ obs'.op = "_reconnect") =>
                loop'.timers = Append(Tail(loop.timers), Retry)]_vars

C6_Witness ==
    /\ cfg.ioloop
    /\ ~con.terminating
    /\ obs.op = "_on_connection_error"
    /\ loop.timers = <<Retry>>

\* C7: once terminating, no step adds a retry timer.
C7_NoRetryTimerWhileTerminating ==
    [][con.terminating => Len(loop'.timers) <= Len(loop.timers)]_vars

\* C8: once terminating, no step calls _connect.
C8_NoConnectAfterStop ==
    [][con.terminating => obs'.attempts = obs.attempts /\ pika'.conn.id = pika.conn.id]_vars

\* a retry timer that was pending when stop() was called has fired
C8_Witness ==
    /\ con.terminating
    /\ obs.op = "_reconnect"
    /\ obs.attempts >= 1

\* nothing of the shutdown is still under way: no queued callback, no timer,
\* no request or close the broker has yet to answer
Settled ==
    /\ loop.callbacks = <<>>
    /\ loop.timers = <<>>
    /\ pika.conn.st \notin {"opening", "closing"}
    /\ pika.chan.st \notin {"opening", "closing"}
    /\ pika.chan.rpc = "none"

\* C9: after stop(), once everything under way has run, the channel and the
\* connection are closed.
C9_StopReachesClosed ==
    (con.terminating /\ Settled) =>
        /\ pika.conn.st \in {"none", "closed"}
        /\ pika.chan.st \in {"none", "closed"}

\* C10: stop() never raises.
C10_StopNeverRaises ==
    obs.op = "stop" => obs.exc = "none"

\* C11: an unexpected close of the channel or the connection while not
\* terminating drops the channel handle; the channel close makes the
\* connector close the connection, the connection close schedules one
\* _reconnect timer with delay RetryDelay, and from there a fresh connection
\* attempt is eventually started (unless stop() comes first); a fresh attempt
\* starts without a channel, so the handshake is rebuilt from its beginning.
C11_UnexpectedCloseRestarts ==
    /\ [][~con.terminating =>
            /\ obs'.op = "_on_channel_closed" =>
                  /\ con'.channel = 0
                  /\ pika'.conn.st = "closing"
            /\ obs'.op = "_on_connection_closed" =>
                  /\ con'.channel = 0
                  /\ loop'.timers = Append(loop.timers, Retry)]_vars
    /\ [](pika.conn.st = "opening" => con.channel = 0 /\ pika.chan.st \in {"none", "closed"})
    /\ \A n \in 0..(MaxConnect - 1) :
          (~con.terminating /\ obs.attempts = n
             /\ obs.op \in {"_on_channel_closed", "_on_connection_closed"})
          ~> (con.terminating \/ obs.attempts > n)

\* after a consumer was lost with its connection, the next attempt is under way
C11_Witness ==
    /\ ~con.terminating
    /\ obs.attempts = 2
    /\ pika.conn = [id |-> 2, st |-> "opening"]
    /\ con.channel = 0
    /\ con.consumer_tag = 1

NoRetryReported(logs) ==
    \E i \in 1..Len(logs) : logs[i].msg = "IOLoop is not configured, will not retry!"

\* C12: without a scheduler, a failed connect attempt (the connect call
\* raises, or the open-error callback fires) raises nothing, schedules no
\* retry and logs 'IOLoop is not configured, will not retry!'.
C12_NoSchedulerNoRetry ==
    [][(~cfg.ioloop /\ ~con.terminating
          /\ (ConnectRaisedStep \/ obs'.op = "_on_connection_error")) =>
          /\ obs'.exc = "none"
          /\ Len(loop'.timers) <= Len(loop.timers)
          /\ NoRetryReported(obs'.logs)]_vars

\* C13: setup() called while a connection is opening or open is a no-op: it
\* starts no further connection attempt and replaces no connection.
C13_SetupIdempotent ==
    [][(obs'.op = "setup" /\ pika.conn.st \in {"opening", "open"}) =>
          /\ obs'.attempts = obs.attempts
          /\ pika'.conn = pika.conn
          /\ con'.connection = con.connection]_vars

\* the routing key a publish_status / publish_keypress call addresses
Addressed == IF obs.op = "publish_status" THEN cfg.rk_status ELSE cfg.rk_key[obs.arg]

C15_KeypressMessage ==
    (obs.op = "publish_keypress" /\ con.channel # 0
       /\ pika.chan.st = "open" /\ pika.chan.id = con.channel) =>
        /\ obs.exc = "none"
        /\ Len(obs.sent) = 1
        /\ obs.sent[1].rk = cfg.rk_key[obs.arg]
        /\ obs.sent[1].body.kind = "key"
        /\ obs.sent[1].body.original = "{\"key\": " \o ToString(obs.arg) \o "}"

C15_Witness ==
    /\ obs.op = "publish_keypress" /\ obs.arg = 4
    /\ pika.chan.st = "open" /\ pika.chan.consumer # 0
    /\ obs.sent = <<[rk |-> "4.key", body |-> KeyBody(4)]>>

StepNames(steps) == [i \in 1..Len(steps) |-> steps[i].step]

Before(steps, a, b) ==
    \A i \in 1..Len(steps) : steps[i].step = b => \E j \in 1..(i - 1) : steps[j].step = a

\* C16: with declare set, exchange and queue are declared non-passively and
\* the queue is bound to the configuration routing key, and the binding is
\* confirmed, before consuming starts; with declare unset both declarations
\* are passive and no bind request is issued.
C16_DeclareFlag ==
    LET steps == pika.chan.steps
    IN /\ \A i \in 1..Len(steps) :
            /\ steps[i].step \in {"exchange_declare", "queue_declare"} =>
                  steps[i].passive = ~cfg.declare
            /\ steps[i].step = "queue_bind" =>
                  cfg.declare /\ steps[i].rk = cfg.rk_config
       /\ cfg.declare =>
            /\ Before(steps, "queue_bind", "queue_bind_ok")
            /\ Before(steps, "queue_bind_ok", "basic_consume")

\* consuming after a bind the connector asked for
C16_Witness ==
    /\ cfg.declare
    /\ pika.chan.consumer # 0
    /\ Step("queue_bind", FALSE, cfg.rk_config) = pika.chan.steps[7]
    /\ Step("exchange_declare", FALSE, "") = pika.chan.steps[3]

Handshake(declare) ==
    <<"connection_open", "channel_open", "exchange_declare", "exchange_declare_ok",
      "queue_declare", "queue_declare_ok">>
    \o (IF declare THEN <<"queue_bind", "queue_bind_ok">> ELSE <<>>)
    \o <<"basic_consume">>

\* C17: in every connection attempt the handshake goes connection open,
\* channel open, exchange verified, queue verified, bound, consuming, in this
\* order (the bind only with declare set); consuming never starts before the
\* queue is verified on the current channel, and the consumer tag is cached
\* when consuming starts.
C17_HandshakeOrder ==
    /\ IsPrefix(StepNames(pika.chan.steps), Handshake(cfg.declare))
    /\ (pika.chan.st # "none" /\ pika.chan.id = pika.conn.id) => pika.conn.st # "opening"
    /\ pika.chan.consumer # 0 => Before(pika.chan.steps, "queue_declare_ok", "basic_consume")
    /\ \A i \in 1..Len(pika.chan.steps) :
          pika.chan.steps[i].step = "basic_consume" => con.consumer_tag = pika.chan.id

\* the second attempt's handshake has reached consuming, without a bind
C17_Witness ==
    /\ ~cfg.declare
    /\ pika.chan.id = 2
    /\ con.consumer_tag = 2
    /\ StepNames(pika.chan.steps) = Handshake(FALSE)

\* C18: the provider is held weakly: its owner can be destroyed while it is
\* registered, a stop() after that schedules no flush, and registering None
\* raises nothing and leaves no provider registered.
C18_WeakProvider ==
    [][/\ (obs'.op = "stop" /\ con.configuration_provider # "live") =>
              Count(obs'.log, "flush_scheduled") = Count(obs.log, "flush_scheduled")
       /\ con.configuration_provider = "live" => ENABLED OwnerDestroyed
       /\ (obs'.op = "set_configuration_provider" /\ obs'.arg = 0) =>
              /\ obs'.exc = "none"
              /\ con'.configuration_provider = "unset"]_vars

\* what the IOLoop calls: pika's callbacks into the connector, the retry
\* timer and the callbacks stop() queued
LoopCallbacks ==
    {"_reconnect", "_on_connection_open", "_on_connection_error", "_on_connection_closed",
     "_on_channel_open", "_on_channel_closed", "_on_exchange_declare", "_on_queue_declare",
     "_on_bind", "_on_configuration_callback", "_on_cancel", "_publish", "basic_cancel"}

\* C19: nothing that goes wrong after startup leaves a callback of the
\* connector as an exception into the event loop.
C19_NoExceptionIntoLoop ==
    obs.op \in LoopCallbacks => obs.exc = "none"

NonEmpty(x) == x # None /\ x # ""

\* host, user, status routing key and queue name non-empty; per-key routing
\* keys omitted, or four non-empty strings
ValidArgs(a) ==
    /\ NonEmpty(a.amqp_host) /\ NonEmpty(a.amqp_user)
    /\ NonEmpty(a.rk_status) /\ NonEmpty(a.qu_config)
    /\ \/ ~a.rk_key.list
       \/ /\ Len(a.rk_key.items) = Len(DEFAULT_RK_KEY)
          /\ \A i \in 1..Len(a.rk_key.items) : NonEmpty(a.rk_key.items[i])

\* C20: constructing an AmqpConfiguration from valid arguments succeeds; with
\* the per-key routing keys omitted the defaults apply.
C20_ValidConstructs ==
    (amqp.args # <<>> /\ amqp.result # Pending /\ ValidArgs(amqp.args[1])) =>
        /\ amqp.result.error = "none"
        /\ ~amqp.args[1].rk_key.list => amqp.result.built[1].rk_key = DEFAULT_RK_KEY

BadKeyEntry(a) ==
    a.rk_key.list /\ (Contains(a.rk_key.items, None) \/ Contains(a.rk_key.items, ""))

\* the message of the error names a field that is in fact absent or empty
IdentifiesOffendingField(a, message) ==
    \/ message = "Host configuration must be provided!" /\ Falsy(a.amqp_host)
    \/ message = "User configuration must be provided!" /\ Falsy(a.amqp_user)
    \/ message = "Routing key for status must be provided!" /\ Falsy(a.rk_status)
    \/ message = "Routing keys for key presses must not be empty!" /\ BadKeyEntry(a)
    \/ message = "Queue name for configuration must be provided!" /\ Falsy(a.qu_config)

\* C21: when the host, the user, one of the per-key routing keys or the
\* configuration queue name is absent or empty, constructing an
\* AmqpConfiguration fails with a ValueError whose message names an offending
\* field, and nothing is built.
C21_MissingFieldIsValueError ==
    (amqp.env = <<>> /\ amqp.args # <<>> /\ amqp.result # Pending
       /\ (Falsy(amqp.args[1].amqp_host) \/ Falsy(amqp.args[1].amqp_user)
             \/ BadKeyEntry(amqp.args[1]) \/ Falsy(amqp.args[1].qu_config))) =>
        /\ amqp.result.error = "ValueError"
        /\ IdentifiesOffendingField(amqp.args[1], amqp.result.message)
        /\ amqp.result.built = <<>>

\* rk_key(idx) of a built configuration, idx counted from 0
built_rk_key(idx) == amqp.result.built[1].rk_key[idx + 1]

OnlyHostAndUser ==
    /\ amqp.env # <<>>
    /\ amqp.env[1].AMQP_HOST = "localhost" /\ amqp.env[1].AMQP_USER = "user"
    /\ \A v \in DOMAIN amqp.env[1] \ {"AMQP_HOST", "AMQP_USER"} : amqp.env[1][v] = Unset

\* C22: from an environment that sets only AMQP_HOST = localhost and
\* AMQP_USER = user the configuration is built with password None, exchange
\* 'pingboard', status routing key 'status', key routing keys '1.key' ..
\* '4.key' at indices 0..3, configuration routing key and queue
\* 'pingboard-configuration' and declare False.
C22_EnvironmentDefaults ==
    (OnlyHostAndUser /\ amqp.result # Pending) =>
        /\ amqp.result.error = "none"
        /\ amqp.result.built =
             <<[host |-> "localhost", user |-> "user", passwd |-> None,
                exchange |-> "pingboard", rk_status |-> "status",
                rk_key |-> <<"1.key", "2.key", "3.key", "4.key">>,
                rk_config |-> "pingboard-configuration",
                qu_config |-> "pingboard-configuration", declare |-> FALSE]>>
        /\ \A i \in 0..3 : built_rk_key(i) = DEFAULT_RK_KEY[i + 1]

C22_Witness ==
    /\ OnlyHostAndUser
    /\ amqp.result.error = "none"
    /\ built_rk_key(3) = "4.key"

\* C23: for every i in 1..4, when AMQP_RK_KEY_i is set, rk_key(i-1) of the
\* configuration built from the environment is its value, whatever the other
\* three variables are.
C23_KeyVariablePerKey ==
    (amqp.env # <<>> /\ amqp.result # Pending /\ amqp.result.error = "none") =>
        /\ amqp.env[1].AMQP_RK_KEY_1 # Unset => built_rk_key(0) = amqp.env[1].AMQP_RK_KEY_1
        /\ amqp.env[1].AMQP_RK_KEY_2 # Unset => built_rk_key(1) = amqp.env[1].AMQP_RK_KEY_2
        /\ amqp.env[1].AMQP_RK_KEY_3 # Unset => built_rk_key(2) = amqp.env[1].AMQP_RK_KEY_3
        /\ amqp.env[1].AMQP_RK_KEY_4 # Unset => built_rk_key(3) = amqp.env[1].AMQP_RK_KEY_4

\* C24: the declare flag of a configuration built from the environment is
\* the truth value AMQP_DECLARE spells: False for 'false', True for 'true',
\* False when the variable is unset.
C24_DeclareByText ==
    (amqp.env # <<>> /\ amqp.result # Pending /\ amqp.result.error = "none") =>
        /\ amqp.env[1].AMQP_DECLARE = "false" => ~amqp.result.built[1].declare
        /\ amqp.env[1].AMQP_DECLARE = "true" => amqp.result.built[1].declare
        /\ amqp.env[1].AMQP_DECLARE = Unset => ~amqp.result.built[1].declare

\* the consuming steady state: the handshake of the channel the connector
\* holds is complete and channel and connection are open
Consuming ==
    /\ con.channel # 0 /\ pika.chan.id = con.channel
    /\ pika.chan.st = "open" /\ pika.conn.st = "open"
    /\ StepNames(pika.chan.steps) = Handshake(cfg.declare)

HeldAfter(events, n) ==
    LET M == {i \in 1..n : events[i].code = MODIFIER_CODE}
    IN M # {} /\ events[CHOOSE i \in M : \A j \in M : j <= i].enabled

CalledAt(n) == {i \in 1..Len(kp.calls) : kp.calls[i].at = n}

\* C26: the callback is invoked with key number k (the position of the code
\* in KEYS, from 1) exactly for a press of known key k while the modifier is
\* held: never for a key press without the modifier, a key release or a
\* modifier event; the modifier state is the last modifier event.
C26_CallbackOnModifiedPress ==
    /\ kp.modifier = HeldAfter(kp.events, Len(kp.events))
    /\ \A n \in 1..Len(kp.events) :
          /\ CalledAt(n) # {} <=>
                /\ InList(KEYS, kp.events[n].code)
                /\ kp.events[n].enabled
                /\ HeldAfter(kp.events, n - 1)
          /\ Cardinality(CalledAt(n)) <= 1
    /\ \A i \in 1..Len(kp.calls) :
          /\ kp.calls[i].key \in 1..Len(KEYS)
          /\ KEYS[kp.calls[i].key] = kp.events[kp.calls[i].at].code

\* modifier pressed, fourth key pressed, modifier released
C26_Witness ==
    /\ kp.calls = <<[at |-> 2, key |-> 4]>>
    /\ Len(kp.events) = 3
    /\ ~kp.modifier

\* C27: process() with a code that is neither the modifier nor a known key
\* logs exactly one 'Unknown Pingboard key code' warning, raises nothing,
\* invokes no callback and leaves the modifier state as it was.
C27_UnknownCodeWarns ==
    LET n == Len(kp.events)
    IN (n > 0 /\ kp.events[n].code # MODIFIER_CODE /\ ~InList(KEYS, kp.events[n].code)) =>
          /\ Len(kp.logs) = 1
          /\ kp.logs[1].level = "warning"
          /\ kp.logs[1].msg = "Unknown Pingboard key code: %s"
          /\ kp.exc = "none"
          /\ CalledAt(n) = {}
          /\ kp.modifier = HeldAfter(kp.events, n - 1)


\* The default configuration: brightness 255, every key colour [0,0,0], every
\* blink mode OFF.
DefaultConfiguration ==
    [brightness |-> 255,
     keys |-> [i \in 1..4 |-> [idx |-> i, color |-> <<0, 0, 0>>]],
     blink |-> [i \in 1..4 |-> [idx |-> i, mode |-> "OFF", color |-> <<0, 0, 0>>]]]

\* C28: get_configuration called before any configuration has been received
\* returns the default configuration and does not raise.
C28_GetBeforeConfiguration ==
    (pc.op = "get_configuration" /\ pc.calls = 1)
        => (pc.exc = "none" /\ pc.ret = <<DefaultConfiguration>>)

\* the received structure has no "configuration" part, or only unknown keys in it
NothingValid(c) ==
    /\ c.kind = "dict"
    /\ \/ ~c.part
       \/ /\ c.entries # <<>>
          /\ \A i \in 1..Len(c.entries) : c.entries[i].key \notin {"brightness", "keys", "blink"}

\* C29: on_configuration leaves the stored state absent and sends no device
\* command when the received structure has no "configuration" part or only
\* unknown configuration keys.
C29_NothingValidLeavesStateAbsent ==
    (pc.op = "on_configuration" /\ ~pc.was /\ NothingValid(pc.cfg))
        => (pc.state = <<>> /\ pc.commands = <<>>)

\* the received configuration is the valid entries with an unknown key among them
ValidWithUnknown(c) ==
    /\ c.kind = "dict" /\ c.part
    /\ \E k \in 0..Len(ValidEntries) : c.entries = WithUnknownAt(ValidEntries, k)

\* C30: for a configuration of valid entries (brightness, keys, blink) and an
\* unknown key, wherever the unknown key stands, every valid entry is applied
\* to the stored state and sent to the device in order, exactly one error is
\* logged, for the unknown key, and no exception escapes.
C30_InvalidEntryDoesNotStopOthers ==
    (pc.op = "on_configuration" /\ ValidWithUnknown(pc.cfg))
        => /\ pc.exc = "none"
           /\ pc.commands = <<"DIM 000\n", "COL 1 255 255 255\n",
                              "BLNK 3 SINGLE 128 128 128\n", "BLNK 4 SHORT 000 000 000\n">>
           /\ pc.logs = <<[level |-> "error", msg |-> "Invalid configuration snippet: %s",
                           arg |-> "'foo'"]>>
           /\ pc.state # <<>>
           /\ pc.state[1].brightness = 0
           /\ pc.state[1].keys[1].color = <<255, 255, 255>>
           /\ pc.state[1].keys[3].blink_mode = (IF pc.port_ok THEN "OFF" ELSE "SINGLE")
           /\ pc.state[1].keys[3].blink_color = <<128, 128, 128>>
           /\ pc.state[1].keys[4].blink_mode = "SHORT"
           /\ pc.state[1].keys[4].blink_color = <<0, 0, 0>>

C30_Witness ==
    /\ pc.op = "on_configuration"
    /\ pc.cfg = Structure("dict", TRUE, WithUnknownAt(ValidEntries, 1))
    /\ Len(pc.commands) = 4
    /\ Len(pc.logs) = 1
    /\ ~pc.was


\* the blink requests of the received configuration that are valid throughout
BlinkRequests(c) ==
    IF c.kind = "dict" /\ c.part
    THEN {e \in {c.entries[i] : i \in 1..Len(c.entries)} :
            /\ e.key = "blink"
            /\ \A j \in 1..Len(e.value) :
                 /\ e.value[j].idx \in 1..4
                 /\ e.value[j].mode \in {"SINGLE", "SHORT", "LONG", "OFF"}
                 /\ \A k \in 1..Len(e.value) : e.value[k].idx = e.value[j].idx => k = j}
    ELSE {}

\* C31: a blink request with mode SINGLE that was written successfully is
\* stored as mode OFF with the requested colour; every other mode, and a
\* SINGLE request whose write failed, is stored as requested; push_config
\* repeats a single blink only for a key whose stored mode is still SINGLE.
C31_SingleBlinkStoredOff ==
    /\ pc.op = "on_configuration" =>
         \A e \in BlinkRequests(pc.cfg) : \A j \in 1..Len(e.value) :
            LET item == e.value[j]
                key == pc.state[1].keys[item.idx]
            IN /\ key.blink_color = item.color
               /\ key.blink_mode =
                    (IF item.mode = "SINGLE" /\ pc.port_ok THEN "OFF" ELSE item.mode)
    /\ (pc.op = "push_config" /\ pc.prev # <<>>) =>
         \A i \in 1..4 : \A n \in 1..Len(pc.commands) :
            pc.commands[n] = "BLNK " \o ToString(i) \o " SINGLE "
                               \o FormatColor(pc.prev[1].keys[i].blink_color) \o "\n"
              => /\ pc.prev[1].keys[i].blink_mode = "SINGLE"
                 /\ pc.state[1].keys[i].blink_mode = (IF pc.port_ok THEN "OFF" ELSE "SINGLE")

C31_Witness ==
    /\ pc.op = "on_configuration" /\ pc.port_ok
    /\ pc.cfg = Structure("dict", TRUE, ValidEntries)
    /\ pc.commands[3] = "BLNK 3 SINGLE 128 128 128\n"
    /\ pc.state[1].keys[3].blink_mode = "OFF"
    /\ pc.state[1].keys[4].blink_mode = "SHORT"

\* C32: push_config sends no device command while the state is absent; once
\* a state exists it sends the stored brightness and then, for each key 1..4
\* in order, that key's stored colour and blink setting.
C32_PushConfig ==
    pc.op = "push_config" =>
        /\ pc.exc = "none"
        /\ IF pc.prev = <<>>
           THEN pc.commands = <<>> /\ pc.state = <<>>
           ELSE /\ Len(pc.commands) = 9
                /\ pc.commands[1] = DimCommand(pc.prev[1].brightness)
                /\ \A i \in 1..4 :
                     LET key == pc.prev[1].keys[i]
                     IN /\ pc.commands[2 * i] = ColCommand(i, key.color)
                        /\ pc.commands[2 * i + 1] =
                             BlnkCommand(i, key.blink_mode, key.blink_color)

C32_Witness ==
    /\ pc.op = "push_config"
    /\ pc.prev # <<>>
    /\ pc.commands = <<"DIM 000\n", "COL 1 255 255 255\n", "BLNK 1 OFF 000 000 000\n",
                       "COL 2 000 000 000\n", "BLNK 2 OFF 000 000 000\n",
                       "COL 3 000 000 000\n", "BLNK 3 SINGLE 128 128 128\n",
                       "COL 4 000 000 000\n", "BLNK 4 SHORT 000 000 000\n">>


\* C33: once the connector is terminating, no handshake callback registers a
\* consumer on the queue.
C33_NoConsumeWhenTerminating ==
    [][con.terminating =>
         (pika'.chan.consumer # 0 => pika'.chan.consumer = pika.chan.consumer)]_vars


\* C34: the cached consumer identifier belongs to the channel currently held,
\* so every cancel stop() queues names a consumer that was registered on the
\* channel the cancel is sent on (a consumer identifier is the number of the
\* channel it was obtained on).
C34_CancelOnlyOwnConsumer ==
    /\ (con.channel # 0 /\ con.consumer_tag # 0) => con.consumer_tag = con.channel
    /\ \A i \in 1..Len(loop.callbacks) :
         loop.callbacks[i].fn = "basic_cancel" => loop.callbacks[i].tag = loop.callbacks[i].chan


\* the call was a publish through the public interface
Published == obs.op \in {"publish_status", "publish_keypress"}

\* C35: the connector holds a channel handle only from the channel-open
\* callback to the next channel-closed or unexpected connection-closed
\* callback: whenever the channel or its connection has been reported closed
\* the handle is none, and a publish issued then is discarded with a warning
\* and never written to the closed channel.
C35_NoHandleToClosedChannel ==
    /\ con.channel # 0 =>
         /\ pika.chan.id = con.channel
         /\ pika.chan.st \in {"open", "closing"}
         /\ pika.conn.st \in {"open", "closing"}
    /\ (Published /\ (pika.chan.st = "closed" \/ pika.conn.st = "closed")) =>
         /\ obs.exc = "none"
         /\ obs.sent = <<>>
         /\ \E i \in 1..Len(obs.logs) : obs.logs[i].level = "warning"

C35_Witness ==
    /\ Published
    /\ pika.chan.st = "closed"
    /\ \E i \in 1..Len(pika.chan.steps) : pika.chan.steps[i].step = "basic_consume"
    /\ obs.sent = <<>>


\* C36: after a single setup(), over connect failures and unexpected closes,
\* at most one retry timer is pending, a retry timer is pending only while no
\* connection is being opened or open, and a connection attempt starts only
\* when the earlier connection is gone.
C36_OneConnectionOneTimer ==
    [][/\ Len(loop'.timers) <= 1
       /\ loop'.timers # <<>> => pika'.conn.st \in {"none", "closed"}
       /\ pika'.conn.id # pika.conn.id => pika.conn.st \in {"none", "closed"}
       /\ pika'.orphan = 0]_vars

C36_Witness ==
    /\ obs.op = "_on_connection_closed"
    /\ obs.attempts = 2
    /\ ~con.terminating
    /\ pika.conn = [id |-> 2, st |-> "closed"]
    /\ loop.timers = <<Retry>>


\* C37: on the first termination trigger every registered handler runs
\* exactly once, in registration order; later triggers run no handler; after
\* the first trigger is_terminated() is true; the loop is stopped only after
\* a trigger.
C37_HandlersOnceInOrder ==
    /\ tg.triggers >= 1 =>
         /\ tg.ran = [i \in 1..Len(tg.handlers) |-> tg.handlers[i].id]
         /\ tg.signal_received
    /\ tg.stopped => tg.triggers >= 1


\* C38: _write makes at most 3 attempts, returns true exactly when one
\* attempt received the response OK, makes no attempt and returns false when
\* no port is known, and rescans for the port after every serial exception.
C38_WriteBounded ==
    ser.op = "_write" =>
        /\ Len(ser.tried) <= 3
        /\ ser.ok <=> \E n \in 1..Len(ser.tried) : ser.tried[n] = "OK"
        /\ ~ser.began => (ser.tried = <<>> /\ ~ser.ok /\ ser.exc = "none")
        /\ ser.scans = Cardinality({n \in 1..Len(ser.tried) : ser.tried[n] = "SerialException"})

C38_Witness ==
    /\ ser.op = "_write"
    /\ ser.tried = <<"SerialException", "other", "OK">>
    /\ ser.scans = 1
    /\ ser.ok


\* C39: the health endpoint answers 200 exactly when every registered health
\* provider reports healthy, also with no provider, and 500 otherwise; a
\* registration under a reserved key or under a key already registered is
\* rejected, so no such registration is ever accepted.
C39_HealthStatus ==
    /\ hh.op = "get" =>
         hh.status = (IF \A i \in 1..Len(hh.registered) : hh.registered[i].healthy
                      THEN 200 ELSE 500)
    /\ \A i \in 1..Len(hh.registered) :
         /\ hh.registered[i].key \notin {"api-version", "timestamp", "uptime"}
         /\ \A j \in 1..Len(hh.registered) :
              hh.registered[j].key = hh.registered[i].key => j = i

====
